---- MODULE Spec2Model ----
(***************************************************************************)
(* Model of src/avlTree.h: the classes Node, Iterator and AvlTree.         *)
(*                                                                         *)
(* The member functions of the header operate on a doubly linked chain of  *)
(* nodes: AvlTree keeps `head`, every Node is reached through `next` and   *)
(* `previous`.  The Node constructor takes (object, left, right); the      *)
(* container calls it as Node(data, <successor>, <predecessor>), so the    *)
(* first link argument is the link the code reads as `next` and the second *)
(* the link it reads as `previous`.  The Iterator's owning-container field *)
(* (avlTreePtr, read as listPtr by the member functions) is one field.     *)
(*                                                                         *)
(* There are two containers, A and B, and one caller.  The caller holds    *)
(* one iterator object, `cursor`, and can also pass the temporaries        *)
(* t.begin() and t.end().  An iterator whose node has been deleted is      *)
(* dangling: using it is undefined behaviour, and the caller modelled here *)
(* never does so (guard Valid).  Node identities are never reused, so a    *)
(* dangling iterator never aliases a newer node.                           *)
(*                                                                         *)
(* `last` is the record of the last call, as the caller sees it: operands, *)
(* outcome and result.  A behaviour watches one family of calls (`watch`,  *)
(* fixed at the start); calls outside the family run in full and leave the *)
(* record Quiet.  Spec covers every family; SpecRemove, SpecCmp, ... are   *)
(* the behaviours of one family each.  `snap` remembers, in the family of  *)
(* the copies, the chains a copy left.                                     *)
(***************************************************************************)
EXTENDS Integers, Sequences, FiniteSets, TLC

\* ---- bounds ----
MaxNodes == 3
MaxVal == 2

NULL == 0
Nodes == 1..MaxNodes
Trees == {"A", "B"}
NoTree == "none"
Values == 1..MaxVal

VARIABLES
    head,       \* head[t]: first node of container t, or NULL
    next,       \* next[n]: Node::left as linked by the container (successor)
    previous,   \* previous[n]: Node::right as linked by the container (predecessor)
    data,       \* data[n]: Node::data
    alloc,      \* nodes created by new and not yet deleted
    used,       \* number of nodes ever created
    cursor,     \* the caller's iterator object
    last,       \* the last watched call: its arguments, outcome and result
    watch,      \* the family of calls that `last` records in this behaviour
    snap        \* snap[t]: the chain container t had after the last copy it
                \* took part in, while no call has changed t since

vars == <<head, next, previous, data, alloc, used, cursor, last, watch, snap>>

\* Iterator::Iterator(node, avlTree)
Iterator(node, avlTree) == [node |-> node, avlTreePtr |-> avlTree]

NoIter == Iterator(NULL, NoTree)

\* A call: the operation, the container, the iterator operands a and b,
\* the value passed (for remove: the value removed), the outcome ("ok" or
\* the exception), and the result: an iterator, a value (for remove: the
\* position the node had in the chain) or the pair of == and !=.
Call(op, t, a, b, v, res, retIt, retVal, retBool) ==
    [op |-> op, t |-> t, a |-> a, b |-> b, v |-> v, res |-> res,
     retIt |-> retIt, retVal |-> retVal, retBool |-> retBool]

\* The record of a call outside the watched family.
Quiet == Call("other", NoTree, NoIter, NoIter, 0, "ok", NoIter, 0, <<>>)

\* The families of calls a behaviour can watch.
\* The nodes met from n by following `next` until nullptr, as the loops
\* `while (nodeIter != nullptr) nodeIter = nodeIter->next` walk them.
\* k bounds the walk by the number of nodes.
RECURSIVE Walk(_, _, _)
Walk(nx, n, k) ==
    IF n = NULL \/ k = 0 THEN <<>> ELSE <<n>> \o Walk(nx, nx[n], k - 1)

\* The chain of container t as the pairs <<node, value>> met from its head,
\* for the heads h, links nx and contents d
ChainOf(h, nx, d, t) ==
    LET w == Walk(nx, h[t], MaxNodes) IN
    [k \in 1..Len(w) |-> <<w[k], d[w[k]]>>]

\* No chain is remembered.
NoSnap == <<<<NULL, NULL>>>>

Families == {"insert", "remove", "throw", "step", "deref", "cmp",
             "find", "copy", "destroy", "mutate"}

\* The calls `last` records in a behaviour that watches one family: the
\* calls of insert, the calls of remove, the calls of remove and of the
\* Iterator operators that throw, the calls that produce or move an
\* iterator, the dereferences, or the comparisons.
Watched(c) ==
    CASE watch = "insert" -> c.op = "insert"
      [] watch = "remove" -> c.op = "remove"
      [] watch = "throw" -> c.res # "ok" /\ c.op # "insert"
      [] watch = "step" -> c.op \in {"begin", "end", "inc", "dec"}
      [] watch = "deref" -> c.op = "deref"
      [] watch = "cmp" -> c.op = "cmp"
      [] watch = "find" -> c.op = "find"
      [] watch = "copy" -> c.op \in {"copy", "assign"}
      [] watch = "destroy" -> c.op = "destroy"
      [] watch = "mutate" -> c.op \in {"insert", "remove"} /\ c.res = "ok"

\* What the record keeps of a watched call: all of it, except in the family
\* "mutate", which keeps the operation, the container and the iterator.
Kept(c) ==
    IF watch = "mutate"
    THEN Call(c.op, c.t, c.a, NoIter, 0, c.res, NoIter, 0, <<>>)
    ELSE c

\* The call c has returned or thrown.  In the family "copy" the chains of
\* both containers of a copy are remembered as the copy left them, each
\* until the next insert, remove, destructor or assignment on its container.
Record(c) ==
    /\ last' = IF Watched(c) THEN Kept(c) ELSE Quiet
    /\ watch' = watch
    /\ snap' = IF watch # "copy" THEN snap
               ELSE IF c.op \in {"copy", "assign"}
               THEN IF c.src = c.t THEN snap
                    ELSE [u \in Trees |->
                            IF u \in {c.t, c.src}
                            THEN ChainOf(head', next', data', u) ELSE snap[u]]
               ELSE IF c.op \in {"insert", "remove", "destroy"}
               THEN [snap EXCEPT ![c.t] = NoSnap]
               ELSE snap

\* The caller only passes iterators that reference a live node or no node.
Valid(it) == it.node = NULL \/ it.node \in alloc

\* AvlTree::begin
begin(t) == Iterator(head[t], t)

\* AvlTree::end
end(t) == Iterator(NULL, t)

\* AvlTree::AvlTree(): both containers start empty; the caller's iterator is
\* A.end(); no call has been made.
Init ==
    /\ head = [t \in Trees |-> NULL]
    /\ next = [n \in Nodes |-> NULL]
    /\ previous = [n \in Nodes |-> NULL]
    /\ data = [n \in Nodes |-> 0]
    /\ alloc = {}
    /\ used = 0
    /\ cursor = end("A")
    /\ last = Quiet
    /\ watch \in Families
    /\ snap = [t \in Trees |-> NoSnap]

\* cursor = t.begin()
Begin(t) ==
    /\ cursor' = begin(t)
    /\ Record(Call("begin", t, NoIter, NoIter, 0, "ok", begin(t), 0, <<>>))
    /\ UNCHANGED <<head, next, previous, data, alloc, used>>

\* cursor = t.end()
End(t) ==
    /\ cursor' = end(t)
    /\ Record(Call("end", t, NoIter, NoIter, 0, "ok", end(t), 0, <<>>))
    /\ UNCHANGED <<head, next, previous, data, alloc, used>>

\* The last node of the chain: `while (nodeIter->next != nullptr)
\* nodeIter = nodeIter->next`.
RECURSIVE LastNode(_, _, _)
LastNode(nx, n, k) ==
    IF nx[n] = NULL \/ k = 0 THEN n ELSE LastNode(nx, nx[n], k - 1)

\* the position of node n in the sequence of nodes w (0 when absent)
IndexOf(w, n) ==
    IF \E k \in 1..Len(w) : w[k] = n
    THEN CHOOSE k \in 1..Len(w) : w[k] = n ELSE 0

\* Node::Node(object, left, right) for the fresh node n: the node exists
\* and holds a copy of the object ...
NewNode(n, object) ==
    /\ n = used + 1
    /\ used' = n
    /\ alloc' = alloc \cup {n}
    /\ data' = [data EXCEPT ![n] = object]

\* The constructor, had it left the first link of the new node null
NodeLeft_DropsLink(n, left) == [next EXCEPT ![n] = NULL]

\* ... its first link is `left` (the link the container reads as next) ...
NodeLeft(n, left) == [next EXCEPT ![n] = left]

\* The constructor, had it left the second link of the new node null
NodeRight_DropsLink(n, right) == [previous EXCEPT ![n] = NULL]

\* ... and its second link is `right` (the link read as previous).
NodeRight(n, right) == [previous EXCEPT ![n] = right]

\* AvlTree::insert(data, iterator)
insert(t, v, iterator) ==
    /\ Valid(iterator)
    /\ IF iterator.avlTreePtr # t
       THEN /\ Record(Call("insert", t, iterator, NoIter, v, "ElementNotFound",
                            NoIter, 0, <<>>))
            /\ UNCHANGED <<head, next, previous, data, alloc, used, cursor>>
       ELSE /\ used < MaxNodes
            /\ LET newNode == used + 1 IN
               IF iterator.node = NULL
               THEN IF head[t] = NULL
                    THEN /\ NewNode(newNode, v)
                         /\ next' = NodeLeft(newNode, NULL)
                         /\ previous' = NodeRight(newNode, NULL)
                         /\ head' = [head EXCEPT ![t] = newNode]
                    ELSE LET nodeIter == LastNode(next, head[t], MaxNodes) IN
                         /\ NewNode(newNode, v)
                         /\ next' = [NodeLeft(newNode, NULL)
                                        EXCEPT ![nodeIter] = newNode]
                         /\ previous' = NodeRight(newNode, nodeIter)
                         /\ UNCHANGED head
               ELSE LET iteratorNode == iterator.node
                        iteratorPrev == previous[iteratorNode] IN
                    /\ NewNode(newNode, v)
                    /\ previous' = [NodeRight(newNode, iteratorPrev)
                                        EXCEPT ![iteratorNode] = newNode]
                    /\ IF iteratorPrev # NULL
                       THEN /\ next' = [NodeLeft(newNode, iteratorNode)
                                            EXCEPT ![iteratorPrev] = newNode]
                            /\ UNCHANGED head
                       ELSE /\ next' = NodeLeft(newNode, iteratorNode)
                            /\ head' = [head EXCEPT ![t] = newNode]
            /\ Record(Call("insert", t, iterator, NoIter, v, "ok",
                            NoIter, 0, <<>>))
            /\ UNCHANGED cursor

\* AvlTree::remove, mutant: the link of the predecessor is not redirected.
unlink_KeepsPredecessorLink(t, node) ==
    LET prev == previous[node]
        nxt == next[node] IN
    /\ next' = [next EXCEPT ![node] = NULL]
    /\ previous' = [n \in Nodes |->
                      IF n = node THEN NULL
                      ELSE IF nxt # NULL /\ n = nxt THEN prev
                      ELSE previous[n]]
    /\ head' = IF prev = NULL THEN [head EXCEPT ![t] = nxt] ELSE head
    /\ data' = [data EXCEPT ![node] = 0]
    /\ alloc' = alloc \ {node}

\* AvlTree::remove, the part after the checks: the node is taken out of the
\* chain between its predecessor and its successor, the head moves to the
\* successor when the node was first, and the node is deleted.
unlink(t, node) ==
    LET prev == previous[node]
        nxt == next[node] IN
    /\ next' = [n \in Nodes |->
                  IF n = node THEN NULL
                  ELSE IF prev # NULL /\ n = prev THEN nxt
                  ELSE next[n]]
    /\ previous' = [n \in Nodes |->
                      IF n = node THEN NULL
                      ELSE IF nxt # NULL /\ n = nxt THEN prev
                      ELSE previous[n]]
    /\ head' = IF prev = NULL THEN [head EXCEPT ![t] = nxt] ELSE head
    /\ data' = [data EXCEPT ![node] = 0]
    /\ alloc' = alloc \ {node}

\* AvlTree::remove, mutant: the owner of the iterator is not compared.
removeThrows_NoOwnerCheck(t, iterator) ==
    head[t] = NULL \/ iterator.node = NULL

\* AvlTree::remove, the two checks that throw ElementNotFound
removeThrows(t, iterator) ==
    \/ head[t] = NULL \/ iterator.node = NULL
    \/ iterator.avlTreePtr # t \/ iterator.avlTreePtr = NoTree

\* AvlTree::remove, mutant: the owner of the iterator is compared only
\* after the node has been taken out.
remove_UnlinksBeforeOwnerCheck(t, iterator) ==
    /\ Valid(iterator)
    /\ IF head[t] = NULL \/ iterator.node = NULL
       THEN /\ Record(Call("remove", t, iterator, NoIter, 0, "ElementNotFound",
                            NoIter, 0, <<>>))
            /\ UNCHANGED <<head, next, previous, data, alloc, used, cursor>>
       ELSE /\ unlink(t, iterator.node)
            /\ Record(Call("remove", t, iterator, NoIter,
                            data[iterator.node],
                            IF iterator.avlTreePtr # t
                            THEN "ElementNotFound" ELSE "ok",
                            NoIter, 0, <<>>))
            /\ UNCHANGED <<used, cursor>>

\* AvlTree::remove(iterator)
remove(t, iterator) ==
    /\ Valid(iterator)
    /\ IF removeThrows(t, iterator)
       THEN /\ Record(Call("remove", t, iterator, NoIter, 0, "ElementNotFound",
                            NoIter, 0, <<>>))
            /\ UNCHANGED <<head, next, previous, data, alloc, used, cursor>>
       ELSE /\ unlink(t, iterator.node)
            /\ Record(Call("remove", t, iterator, NoIter,
                            data[iterator.node], "ok", NoIter,
                            IndexOf(Walk(next, head[t], MaxNodes), iterator.node),
                            <<>>))
            /\ UNCHANGED <<used, cursor>>

\* Iterator::operator++() (prefix), called by the postfix operator: advance
\* to the successor; illegal on the end iterator.
PrefixInc(it) ==
    IF it.node = NULL
    THEN [res |-> "IllegalOperation", it |-> it]
    ELSE [res |-> "ok", it |-> Iterator(next[it.node], it.avlTreePtr)]

\* Iterator::operator++(int)
PostInc ==
    LET copy == cursor
        r == PrefixInc(cursor) IN
    /\ Valid(cursor)
    /\ cursor' = r.it
    /\ Record(Call("inc", cursor.avlTreePtr, cursor, NoIter, 0, r.res,
                    IF r.res = "ok" THEN copy ELSE NoIter, 0, <<>>))
    /\ UNCHANGED <<head, next, previous, data, alloc, used>>

\* Iterator::operator--(int)
PostDec ==
    /\ Valid(cursor)
    /\ IF cursor.node = NULL
       THEN /\ Record(Call("dec", cursor.avlTreePtr, cursor, NoIter, 0,
                            "IllegalOperation", NoIter, 0, <<>>))
            /\ UNCHANGED cursor
       ELSE LET iterNode == cursor.node
                moved == Iterator(next[iterNode], cursor.avlTreePtr) IN
            /\ cursor' = moved
            /\ Record(Call("dec", cursor.avlTreePtr, cursor, NoIter, 0,
                            "ok", moved, 0, <<>>))
    /\ UNCHANGED <<head, next, previous, data, alloc, used>>

\* Iterator::operator*, mutant: the check looks at the successor as well,
\* so the last element cannot be read.
Deref_ChecksSuccessor ==
    /\ Valid(cursor)
    /\ IF cursor.node = NULL \/ next[cursor.node] = NULL
       THEN Record(Call("deref", cursor.avlTreePtr, cursor, NoIter, 0,
                         "ElementNotFound", NoIter, 0, <<>>))
       ELSE LET iterNode == cursor.node IN
            Record(Call("deref", cursor.avlTreePtr, cursor, NoIter, 0,
                         "ok", NoIter, data[iterNode], <<>>))
    /\ UNCHANGED <<head, next, previous, data, alloc, used, cursor>>

\* Iterator::operator*
Deref ==
    /\ Valid(cursor)
    /\ IF cursor.node = NULL
       THEN Record(Call("deref", cursor.avlTreePtr, cursor, NoIter, 0,
                         "ElementNotFound", NoIter, 0, <<>>))
       ELSE LET iterNode == cursor.node IN
            Record(Call("deref", cursor.avlTreePtr, cursor, NoIter, 0,
                         "ok", NoIter, data[iterNode], <<>>))
    /\ UNCHANGED <<head, next, previous, data, alloc, used, cursor>>

\* Iterator::operator==, mutant: only the nodes are compared.
IterEq_NodeOnly(a, b) == a.node = b.node

\* Iterator::operator==
IterEq(a, b) == (a.node = b.node) /\ (a.avlTreePtr = b.avlTreePtr)

\* Iterator::operator!=
IterNeq(a, b) == ~IterEq(a, b)

\* The iterators the caller can name: the one it holds and the results of
\* begin() and end() of either container.
Operands == {cursor} \cup {begin(t) : t \in Trees} \cup {end(t) : t \in Trees}

\* cursor == b and cursor != b
Compare(b) ==
    /\ Record(Call("cmp", NoTree, cursor, b, 0, "ok", NoIter, 0,
                    <<IterEq(cursor, b), IterNeq(cursor, b)>>))
    /\ UNCHANGED <<head, next, previous, data, alloc, used, cursor>>

\* The memory of the containers as one value, for the member functions that
\* call insert and remove in a loop: the fields, the nodes deleted so far (in
\* the order of the deletes) and the outcome so far.
Heap ==
    [head |-> head, next |-> next, previous |-> previous, data |-> data,
     alloc |-> alloc, used |-> used, freed |-> <<>>, res |-> "ok"]

\* remove as called by a member function, had it spliced the node out of
\* the chain without `delete node`
removeIn_KeepsNode(s, t, iterator) ==
    IF s.head[t] = NULL \/ iterator.node = NULL
    THEN [s EXCEPT !.res = "ElementNotFound"]
    ELSE IF iterator.avlTreePtr # t \/ iterator.avlTreePtr = NoTree
    THEN [s EXCEPT !.res = "ElementNotFound"]
    ELSE LET node == iterator.node
             prev == s.previous[node]
             nxt == s.next[node] IN
         [s EXCEPT
            !.next = [n \in Nodes |->
                        IF n = node THEN NULL
                        ELSE IF prev # NULL /\ n = prev THEN nxt
                        ELSE s.next[n]],
            !.previous = [n \in Nodes |->
                        IF n = node THEN NULL
                        ELSE IF nxt # NULL /\ n = nxt THEN prev
                        ELSE s.previous[n]],
            !.head = IF prev = NULL THEN [s.head EXCEPT ![t] = nxt] ELSE s.head]

\* AvlTree::remove(iterator) as called by a member function, on the memory s
removeIn(s, t, iterator) ==
    IF s.head[t] = NULL \/ iterator.node = NULL
    THEN [s EXCEPT !.res = "ElementNotFound"]
    ELSE IF iterator.avlTreePtr # t \/ iterator.avlTreePtr = NoTree
    THEN [s EXCEPT !.res = "ElementNotFound"]
    ELSE LET node == iterator.node
             prev == s.previous[node]
             nxt == s.next[node] IN
         [s EXCEPT
            !.next = [n \in Nodes |->
                        IF n = node THEN NULL
                        ELSE IF prev # NULL /\ n = prev THEN nxt
                        ELSE s.next[n]],
            !.previous = [n \in Nodes |->
                        IF n = node THEN NULL
                        ELSE IF nxt # NULL /\ n = nxt THEN prev
                        ELSE s.previous[n]],
            !.head = IF prev = NULL THEN [s.head EXCEPT ![t] = nxt] ELSE s.head,
            !.data = [s.data EXCEPT ![node] = 0],
            !.alloc = s.alloc \ {node},
            !.freed = Append(s.freed, node)]

\* AvlTree::insert(data, this->end()) as called by a member function, on the
\* memory s: the iterator is the end of this container, so the new node
\* becomes the head of an empty chain or follows the last node.
insertIn(s, t, v) ==
    LET newNode == s.used + 1 IN
    IF s.head[t] = NULL
    THEN [s EXCEPT !.head = [s.head EXCEPT ![t] = newNode],
                   !.next = [s.next EXCEPT ![newNode] = NULL],
                   !.previous = [s.previous EXCEPT ![newNode] = NULL],
                   !.data = [s.data EXCEPT ![newNode] = v],
                   !.alloc = s.alloc \cup {newNode},
                   !.used = newNode]
    ELSE LET nodeIter == LastNode(s.next, s.head[t], MaxNodes) IN
         [s EXCEPT !.next = [s.next EXCEPT ![newNode] = NULL,
                                           ![nodeIter] = newNode],
                   !.previous = [s.previous EXCEPT ![newNode] = nodeIter],
                   !.data = [s.data EXCEPT ![newNode] = v],
                   !.alloc = s.alloc \cup {newNode},
                   !.used = newNode]

\* `while (head != nullptr) remove(begin())` of operator= and the loop of
\* the destructor, `iter = begin(); while (iter.node != nullptr)
\* { remove(iter); iter = begin(); }`: k bounds the number of rounds; a loop
\* that needs more has not ended ("diverges").
RECURSIVE removeAll(_, _, _)
removeAll(s, t, k) ==
    IF s.res # "ok" \/ s.head[t] = NULL THEN s
    ELSE IF k = 0 THEN [s EXCEPT !.res = "diverges"]
    ELSE removeAll(removeIn(s, t, Iterator(s.head[t], t)), t, k - 1)

\* `while (nodeIter != nullptr) { insert(nodeIter->data, end());
\* nodeIter = nodeIter->next; }` of the copy constructor and of operator=
RECURSIVE copyLoop(_, _, _, _)
copyLoop(s, t, nodeIter, k) ==
    IF nodeIter = NULL THEN s
    ELSE IF k = 0 THEN [s EXCEPT !.res = "diverges"]
    ELSE LET s2 == insertIn(s, t, s.data[nodeIter]) IN
         copyLoop(s2, t, s2.next[nodeIter], k - 1)

\* The memory after a member function is the memory s.
Commit(s) ==
    /\ head' = s.head
    /\ next' = s.next
    /\ previous' = s.previous
    /\ data' = s.data
    /\ alloc' = s.alloc
    /\ used' = s.used

\* The number of nodes of container t
Size(t) == Len(Walk(next, head[t], MaxNodes))

\* The destructor with `if` in the place of `while`
Destroy_RemovesOnce(t) ==
    \E s \in {IF head[t] = NULL THEN Heap ELSE removeIn(Heap, t, begin(t))} :
    /\ Commit(s)
    /\ Record(Call("destroy", t, NoIter, NoIter, 0, s.res, NoIter, 0, <<>>)
                @@ [freed |-> s.freed])
    /\ UNCHANGED cursor

\* AvlTree::~AvlTree, after which the name t stands for a newly constructed,
\* empty container
Destroy(t) ==
    \E s \in {removeAll(Heap, t, MaxNodes + 1)} :
    /\ Commit(s)
    /\ Record(Call("destroy", t, NoIter, NoIter, 0, s.res, NoIter, 0, <<>>)
                @@ [freed |-> s.freed])
    /\ UNCHANGED cursor

\* The copy constructor, had it taken over the head of src instead of
\* inserting copies of its values
CopyConstruct_SharesNodes(t, src) ==
    /\ t # src
    /\ head[t] = NULL
    /\ used + Size(src) <= MaxNodes
    /\ head' = [head EXCEPT ![t] = head[src]]
    /\ UNCHANGED <<next, previous, data, alloc, used, cursor>>
    /\ Record(Call("copy", t, NoIter, NoIter, 0, "ok", NoIter, 0, <<>>)
                @@ [src |-> src, freed |-> <<>>])

\* AvlTree::AvlTree(AvlTree&): a new container under the name t, which stood
\* for an empty one, built as a copy of the container src.
CopyConstruct(t, src) ==
    /\ t # src
    /\ head[t] = NULL
    /\ used + Size(src) <= MaxNodes
    /\ \E s0 \in {[Heap EXCEPT !.head = [head EXCEPT ![t] = NULL]]} :
       \E s \in {copyLoop(s0, t, s0.head[src], MaxNodes + 1)} :
       /\ Commit(s)
       /\ Record(Call("copy", t, NoIter, NoIter, 0, s.res, NoIter, 0, <<>>)
                   @@ [src |-> src, freed |-> s.freed])
       /\ UNCHANGED cursor

\* operator= without `if (this == &list) return *this;`
Assign_NoSelfCheck(t, src) ==
    /\ used + Size(src) <= MaxNodes
    /\ \E s1 \in {removeAll(Heap, t, MaxNodes + 1)} :
       \E s \in {IF s1.res = "ok"
                 THEN copyLoop(s1, t, s1.head[src], MaxNodes + 1)
                 ELSE s1} :
       \E ret \in {t, NoTree} :
       /\ Commit(s)
       /\ Record(Call("assign", t, NoIter, NoIter, 0, s.res, NoIter, 0, <<>>)
                   @@ [src |-> src, ret |-> ret, freed |-> s.freed])
       /\ UNCHANGED cursor

\* AvlTree::operator=: t = src.  The function ends without a return
\* statement unless src is t itself, so the reference it returns is then
\* indeterminate: ret is t or no container.  (A value is bound by \E over
\* a one-element set so that it is computed once.)
Assign(t, src) ==
    IF t = src
    THEN /\ Record(Call("assign", t, NoIter, NoIter, 0, "ok", NoIter, 0, <<>>)
                    @@ [src |-> src, ret |-> t, freed |-> <<>>])
         /\ UNCHANGED <<head, next, previous, data, alloc, used, cursor>>
    ELSE /\ used + Size(src) <= MaxNodes
         /\ \E s1 \in {removeAll(Heap, t, MaxNodes + 1)} :
            \E s \in {IF s1.res = "ok"
                      THEN copyLoop(s1, t, s1.head[src], MaxNodes + 1)
                      ELSE s1} :
            \E ret \in {t, NoTree} :
            /\ Commit(s)
            /\ Record(Call("assign", t, NoIter, NoIter, 0, s.res, NoIter, 0, <<>>)
                        @@ [src |-> src, ret |-> ret, freed |-> s.freed])
            /\ UNCHANGED cursor

\* The predicates passed to find: "the value is greater than c"
Predicates == 0..MaxVal
Satisfies(c, v) == v > c

\* AvlTree::find: `for (iter = begin(); iter != end(); iter++)
\* { if (predicate(iterNode->data)) return iter; } return iter;`
\* k bounds the number of rounds.
RECURSIVE findLoop(_, _, _, _)
findLoop(t, iter, c, k) ==
    IF ~IterNeq(iter, end(t)) THEN [res |-> "ok", it |-> iter]
    ELSE IF k = 0 THEN [res |-> "diverges", it |-> iter]
    ELSE IF Satisfies(c, data[iter.node]) THEN [res |-> "ok", it |-> iter]
    ELSE LET r == PrefixInc(iter) IN
         IF r.res # "ok" THEN r ELSE findLoop(t, r.it, c, k - 1)

find(t, c) == findLoop(t, begin(t), c, MaxNodes + 1)

\* t.find(predicate)
Find(t, c) ==
    LET r == find(t, c) IN
    /\ Record(Call("find", t, NoIter, NoIter, c, r.res,
                   IF r.res = "ok" THEN r.it ELSE NoIter, 0, <<>>))
    /\ UNCHANGED <<head, next, previous, data, alloc, used, cursor>>

\* t.insert(v, it): the iterator is the one the caller holds or t.end(),
\* the argument the container's own callers pass.
Insert(t, v) ==
    \E it \in {cursor, end(t)} : insert(t, v, it)

\* t.remove(it), with the caller's iterator or a fresh begin() or end()
Remove(t) ==
    \E it \in {cursor, begin(t), end(t)} : remove(t, it)

\* The calls that change a container or the caller's iterator
Moves ==
    \/ \E t \in Trees : Begin(t)
    \/ \E t \in Trees : End(t)
    \/ \E t \in Trees, v \in Values : Insert(t, v)
    \/ \E t \in Trees : Remove(t)
    \/ PostInc
    \/ PostDec
    \/ \E t \in Trees : Destroy(t)
    \/ \E t, src \in Trees : CopyConstruct(t, src)
    \/ \E t, src \in Trees : Assign(t, src)

Next ==
    \/ Moves
    \/ Deref
    \/ \E b \in Operands : Compare(b)
    \/ \E t \in Trees, c \in Predicates : Find(t, c)

Spec == Init /\ [][Next]_vars

\* The behaviours that watch one family of calls.  A call that changes
\* nothing is left out of the behaviours of a family that does not watch it:
\* there it would only replace the record of the last call by Quiet.
InitInsert == Init /\ watch = "insert"
InitRemove == Init /\ watch = "remove"
InitThrow == Init /\ watch = "throw"
InitStep == Init /\ watch = "step"
InitDeref == Init /\ watch = "deref"
InitCmp == Init /\ watch = "cmp"
InitFind == Init /\ watch = "find"
InitCopy == Init /\ watch = "copy"
InitDestroy == Init /\ watch = "destroy"
InitMutate == Init /\ watch = "mutate"
NextDeref == Moves \/ Deref
NextCmp == Moves \/ \E b \in Operands : Compare(b)
NextFind == Moves \/ \E t \in Trees, c \in Predicates : Find(t, c)
SpecInsert == InitInsert /\ [][Moves]_vars
SpecRemove == InitRemove /\ [][Moves]_vars
SpecThrow == InitThrow /\ [][NextDeref]_vars
SpecStep == InitStep /\ [][Moves]_vars
SpecDeref == InitDeref /\ [][NextDeref]_vars
SpecCmp == InitCmp /\ [][NextCmp]_vars
SpecFind == InitFind /\ [][NextFind]_vars
SpecCopy == InitCopy /\ [][Moves]_vars
SpecDestroy == InitDestroy /\ [][Moves]_vars
SpecMutate == InitMutate /\ [][Moves]_vars

\* t.insert(k + 1) on a container of k nodes: the caller inserts 1, 2, 3, ...
\* in that order.
InsertNextKey(t) == insert(t, Size(t) + 1, end(t))

\* The behaviours of a caller that only inserts increasing values and moves
\* its iterator
NextAscending ==
    \/ \E t \in Trees : InsertNextKey(t)
    \/ \E t \in Trees : Begin(t)
    \/ \E t \in Trees : End(t)
    \/ PostInc
    \/ PostDec

SpecAscending == InitInsert /\ [][NextAscending]_vars

TypeOK ==
    /\ head \in [Trees -> Nodes \cup {NULL}]
    /\ next \in [Nodes -> Nodes \cup {NULL}]
    /\ previous \in [Nodes -> Nodes \cup {NULL}]
    /\ alloc \subseteq Nodes
    /\ used \in 0..MaxNodes

\* ---------------------------------------------------------------------
\* Observations used by the properties
\* ---------------------------------------------------------------------

\* The values met from begin() to end(): the data of the nodes of the chain
\* of container t, for the links nx, heads h and contents d.
TraversalOf(h, nx, d, t) ==
    LET w == Walk(nx, h[t], MaxNodes) IN [k \in 1..Len(w) |-> d[w[k]]]

Traversal(t) == TraversalOf(head, next, data, t)

NodesOf(t) == Walk(next, head[t], MaxNodes)

Sorted(s) == \A k \in 1..(Len(s) - 1) : s[k] <= s[k + 1]

\* s with its k-th element deleted
DeleteAt(s, k) == [j \in 1..(Len(s) - 1) |-> IF j < k THEN s[j] ELSE s[j + 1]]

\* s with v placed between its first k elements and the rest
PlaceAt(s, k, v) ==
    [j \in 1..(Len(s) + 1) |-> IF j <= k THEN s[j]
                                ELSE IF j = k + 1 THEN v ELSE s[j - 1]]

\* Height of the subtree rooted at n.  The only link from a node to a node
\* it owns is the first link of the constructor (left, read as `next`); the
\* second (right, read as `previous`) refers back to the node it hangs from.
RECURSIVE Height(_, _)
Height(n, k) == IF n = NULL \/ k = 0 THEN 0 ELSE 1 + Height(next[n], k - 1)

\* height of the left subtree minus height of the right subtree
BalanceFactor(n) == Height(next[n], MaxNodes) - Height(NULL, MaxNodes)

\* the call was insert(v) in the form the container's callers use
IsInsert(c) == c.op = "insert" /\ c.a = end(c.t)

\* ---------------------------------------------------------------------
\* C1: after any sequence of insert and remove operations starting from an
\* empty tree, every node's balance factor (height of the left subtree minus
\* height of the right subtree) is in {-1, 0, 1}.
C1_Balanced ==
    \A t \in Trees : \A k \in 1..Len(NodesOf(t)) :
        BalanceFactor(NodesOf(t)[k]) \in {-1, 0, 1}

\* C2: after any sequence of insert and remove operations the traversal
\* from begin() to end() is non-decreasing, whatever the insertion order.
C2_Sorted == \A t \in Trees : Sorted(Traversal(t))

\* C3: insert(v) returns without an error, and the traversal afterwards is
\* the traversal before plus one occurrence of v at its in-order position
\* (no larger element before it, no smaller element after it).
C3_InsertInOrder ==
    [][IsInsert(last') =>
        /\ last'.res = "ok"
        /\ LET S == Traversal(last'.t)
               R == TraversalOf(head', next', data', last'.t) IN
           \E k \in 0..Len(S) :
               /\ R = PlaceAt(S, k, last'.v)
               /\ \A j \in 1..k : S[j] <= last'.v
               /\ \A j \in (k + 1)..Len(S) : last'.v <= S[j]]_vars

\* C4: for a non-empty tree and an iterator of that tree that references a
\* node, remove(iterator) succeeds and the traversal afterwards is the
\* traversal before with exactly that element deleted, the others keeping
\* their relative order.
C4_RemoveDeletesOne ==
    [][(last'.op = "remove" /\ last'.a.node # NULL
            /\ last'.a.avlTreePtr = last'.t) =>
        \E w \in {NodesOf(last'.t)} :
        \E k \in {IndexOf(w, last'.a.node)} :
        /\ last'.res = "ok"
        /\ k > 0
        /\ TraversalOf(head', next', data', last'.t) =
              DeleteAt([j \in 1..Len(w) |-> data[w[j]]], k)
        /\ last'.a.node \notin alloc']_vars

\* C4 witness: a tree of three nodes has lost its second node, which held
\* 1 between two nodes holding 2.
C4_Witness ==
    /\ last.op = "remove" /\ last.res = "ok" /\ last.v = 1
    /\ last.retVal = 2
    /\ Traversal(last.t) = <<2, 2>>

\* C5: remove(iterator) fails with ElementNotFound exactly when the tree is
\* empty, the iterator was produced by a different tree, or the iterator is
\* the end sentinel; otherwise it succeeds.
C5_RemoveFailsExactly ==
    [][last'.op = "remove" =>
        /\ last'.res \in {"ok", "ElementNotFound"}
        /\ (last'.res = "ElementNotFound") <=>
              \/ head[last'.t] = NULL
              \/ last'.a.avlTreePtr # last'.t
              \/ last'.a.node = NULL]_vars

\* C5 witness: a remove on a non-empty tree failed for the only reason that
\* the iterator, which references a node, came from another tree.
C5_Witness ==
    /\ last.op = "remove" /\ last.res = "ElementNotFound"
    /\ last.a.node # NULL /\ last.a.avlTreePtr # last.t
    /\ head[last.t] # NULL

\* C6: when remove, a forward step, a backward step or a dereference fails
\* with ElementNotFound or IllegalOperation, the nodes, links and values of
\* every tree are what they were before the call.
C6_FailureLeavesTrees ==
    [][(last'.op \in {"remove", "inc", "dec", "deref"}
            /\ last'.res \in {"ElementNotFound", "IllegalOperation"}) =>
        UNCHANGED <<head, next, previous, data, alloc>>]_vars

\* C6 witness: a failed remove while both trees hold nodes.
C6_Witness ==
    /\ last.op = "remove" /\ last.res = "ElementNotFound"
    /\ \A t \in Trees : head[t] # NULL

\* C7: on an empty tree begin() equals end(); a forward step applied to
\* end() raises IllegalOperation; a backward step applied to begin() of a
\* non-empty tree raises IllegalOperation.
C7_Boundaries ==
    /\ \A t \in Trees : head[t] = NULL => IterEq(begin(t), end(t))
    /\ (last.op = "inc" /\ last.a.node = NULL) =>
            last.res = "IllegalOperation"
    /\ (last.op = "dec" /\ last.a.node # NULL
            /\ last.a = begin(last.a.avlTreePtr)) =>
            last.res = "IllegalOperation"

\* C8: for a non-empty tree, a backward step applied to end() raises no
\* error and leaves the iterator at the last element of the traversal.
C8_DecrementEnd ==
    (last.op = "dec" /\ last.a.node = NULL /\ head[last.a.avlTreePtr] # NULL) =>
        /\ last.res = "ok"
        /\ last.retIt = Iterator(LastNode(next, head[last.a.avlTreePtr], MaxNodes),
                                 last.a.avlTreePtr)

\* C9: dereferencing fails with ElementNotFound exactly when the iterator
\* is the end sentinel; otherwise it returns the stored value of the node
\* and changes neither the trees nor the iterator.
C9_Dereference ==
    [][last'.op = "deref" =>
        /\ (last'.res = "ElementNotFound") <=> (last'.a.node = NULL)
        /\ last'.a.node # NULL =>
              (last'.res = "ok" /\ last'.retVal = data[last'.a.node])
        /\ UNCHANGED <<head, next, previous, data, alloc, cursor>>]_vars

\* C9 witness: a dereference returned the value of a node that is not the
\* first of its tree.
C9_Witness ==
    /\ last.op = "deref" /\ last.res = "ok"
    /\ last.a.node # head[last.a.avlTreePtr]
    /\ last.retVal = data[last.a.node]

\* C10: two iterators compare equal iff they reference the same node and
\* were produced by the same tree; end() of a tree never equals end() of a
\* distinct tree; operator!= is the negation of operator==.
C10_Equality ==
    /\ last.op = "cmp" =>
          /\ last.retBool[1] <=> (last.a.node = last.b.node
                                    /\ last.a.avlTreePtr = last.b.avlTreePtr)
          /\ last.retBool[2] <=> ~last.retBool[1]
    /\ \A t, u \in Trees : t # u => ~IterEq(end(t), end(u))

\* C10 witness: end() of one tree was compared with end() of the other and
\* found different.
C10_Witness ==
    /\ last.op = "cmp" /\ last.a.node = NULL /\ last.b.node = NULL
    /\ last.a.avlTreePtr # last.b.avlTreePtr
    /\ last.retBool = <<FALSE, TRUE>>

\* The positions of the traversal w whose value satisfies predicate c
Matches(w, c) == {i \in 1..Len(w) : Satisfies(c, data[w[i]])}

\* C11: find(predicate) returns an iterator to the first node, in ascending
\* in-order order, whose value satisfies the predicate: no node before it in
\* the traversal satisfies the predicate and no node that satisfies it holds
\* a smaller value.  It returns end() of this tree when no value satisfies
\* the predicate (the empty tree included), and leaves the tree unchanged.
C11_FindFirst ==
    [][last'.op = "find" =>
        \E w \in {NodesOf(last'.t)} :
        \E m \in {Matches(w, last'.v)} :
        /\ last'.res = "ok"
        /\ UNCHANGED <<head, next, previous, data, alloc>>
        /\ IF m = {} THEN last'.retIt = end(last'.t)
           ELSE /\ last'.retIt.avlTreePtr = last'.t
                /\ \E i \in m : /\ last'.retIt.node = w[i]
                                /\ \A j \in m : i <= j
                /\ \A j \in m : data[last'.retIt.node] <= data[w[j]]]_vars

\* The set of the nodes of container t, in the memory with heads h and links nx
NodeSetOf(h, nx, t) ==
    LET w == Walk(nx, h[t], MaxNodes) IN {w[i] : i \in 1..Len(w)}

NodeSet(t) == NodeSetOf(head, next, t)

\* C12: begin() returns an iterator to the in-order-first node, which holds
\* a minimum value of the tree; on an empty tree it equals end().
C12_BeginIsFirst ==
    last.op = "begin" =>
        /\ last.retIt.avlTreePtr = last.t
        /\ IF head[last.t] = NULL THEN IterEq(last.retIt, end(last.t))
           ELSE /\ last.retIt.node = NodesOf(last.t)[1]
                /\ \A n \in NodeSet(last.t) :
                          data[last.retIt.node] <= data[n]

\* The chain of container t now
Chain(t) == ChainOf(head, next, data, t)

\* C13: after one container was made a copy of the other (by the copy
\* constructor or by assignment), the two share no node, and a container
\* that no call has changed since the copy still has the chain the copy
\* left, whatever inserts and removes the other container has undergone.
C13_CopiesIndependent ==
    /\ \A t, u \in Trees : t # u => NodeSet(t) \cap NodeSet(u) = {}
    /\ \A t \in Trees : snap[t] # NoSnap => Chain(t) = snap[t]

\* C13 witness: B and a non-empty A were made copies of one another; A has
\* been changed since, B has not.
C13_Witness ==
    /\ snap["B"] # NoSnap /\ snap["B"] # <<>>
    /\ snap["A"] = NoSnap
    /\ Traversal("A") # Traversal("B")
    /\ Chain("B") = snap["B"]

C15_SelfAssign ==
    [][(last'.op = "assign" /\ last'.src = last'.t) =>
        /\ last'.res = "ok"
        /\ last'.ret = last'.t
        /\ last'.freed = <<>>
        /\ UNCHANGED <<head, next, previous, data, alloc, used>>
        /\ (cursor.node \in alloc =>
              cursor' = cursor /\ cursor'.node \in alloc')]_vars

\* C15 witness: a non-empty container was assigned to itself while the
\* caller's iterator referenced one of its nodes.
C15_Witness ==
    /\ last.op = "assign" /\ last.src = last.t
    /\ cursor.avlTreePtr = last.t
    /\ cursor.node \in NodeSet(last.t)

\* C16: the destructor of a container of n nodes ends, raises nothing, and
\* deletes each of the n nodes exactly once: afterwards none of them is
\* allocated and the other nodes are.
C16_DestroyReleasesAll ==
    [][last'.op = "destroy" =>
        \E old \in {NodeSet(last'.t)} :
        /\ last'.res = "ok"
        /\ Len(last'.freed) = Cardinality(old)
        /\ {last'.freed[k] : k \in 1..Len(last'.freed)} = old
        /\ alloc' = alloc \ old
        /\ head'[last'.t] = NULL
        /\ \A u \in Trees \ {last'.t} :
              ChainOf(head', next', data', u) = Chain(u)]_vars

\* C16 witness: a container of at least two nodes was destroyed while the
\* other container held a node.
C16_Witness ==
    /\ last.op = "destroy" /\ last.res = "ok"
    /\ Len(last.freed) >= 2
    /\ \E u \in Trees : u # last.t /\ head[u] # NULL

\* C17: after a successful remove, and after any successful insert, every
\* iterator that referenced a node other than the removed one still
\* references a node of the same tree holding the same value; remove
\* deletes the node it was passed and no other, insert deletes none, and
\* neither touches the caller's iterator object.
C17_IteratorsSurvive ==
    [][last'.op \in {"insert", "remove"} =>
        /\ alloc \ alloc' =
              IF last'.op = "remove" THEN {last'.a.node} ELSE {}
        /\ \A t \in Trees : \A n \in NodeSet(t) :
              n \in alloc' =>
                 /\ n \in NodeSetOf(head', next', t)
                 /\ data'[n] = data[n]
        /\ cursor' = cursor]_vars

\* C17 witness: a node was inserted before the node the caller's iterator
\* references; the iterator still references that node, now second.
C17_Witness ==
    /\ last.op = "insert" /\ last.a = cursor
    /\ cursor.node \in NodeSet(last.t)
    /\ head[last.t] # cursor.node

\* The value held by node n, 0 for no node
ValueAt(n) == IF n = NULL THEN 0 ELSE data[n]

\* C18: inserting 1, 2, 3 in that order into an empty tree leaves 2 at the
\* root with 1 as its left child and 3 as its right child (the result of
\* the single rotation), and inserting increasing values never leaves a node
\* whose subtree heights differ by more than one.
C18_AscendingInserts ==
    \A t \in Trees :
        /\ Traversal(t) = <<1, 2, 3>> =>
              /\ ValueAt(head[t]) = 2
              /\ ValueAt(next[head[t]]) = 1
              /\ ValueAt(previous[head[t]]) = 3
        /\ \A n \in NodeSet(t) : BalanceFactor(n) \in {-1, 0, 1}

\* The nodes an iterator visits from `it` by repeated forward steps until it
\* equals t.end(), and how the walk ended: "end", the exception a step
\* raised, or "diverges" when k steps did not reach the end.
RECURSIVE forward(_, _, _)
forward(t, it, k) ==
    IF IterEq(it, end(t)) THEN [visited |-> <<>>, res |-> "end"]
    ELSE IF k = 0 THEN [visited |-> <<>>, res |-> "diverges"]
    ELSE LET r == PrefixInc(it) IN
         IF r.res # "ok" THEN [visited |-> <<it.node>>, res |-> r.res]
         ELSE LET rest == forward(t, r.it, k - 1) IN
              [visited |-> <<it.node>> \o rest.visited, res |-> rest.res]

\* C19: from begin(), repeated forward steps reach end() without raising,
\* after as many steps as the tree has elements, visiting each node once
\* and each time the successor of the node before (the node whose
\* predecessor link is that node); so the loop of find ends.  The nodes of
\* the two trees are the allocated nodes, each in one tree.
C19_ForwardReachesEnd ==
    \E fA \in {forward("A", begin("A"), MaxNodes + 1)} :
    \E fB \in {forward("B", begin("B"), MaxNodes + 1)} :
    /\ fA.res = "end" /\ fB.res = "end"
    /\ Len(fA.visited) + Len(fB.visited) = Cardinality(alloc)
    /\ {fA.visited[i] : i \in 1..Len(fA.visited)}
          \cup {fB.visited[i] : i \in 1..Len(fB.visited)} = alloc
    /\ \A f \in {fA, fB} : \A i \in 1..Len(f.visited) :
          previous[f.visited[i]] = IF i = 1 THEN NULL ELSE f.visited[i - 1]
    /\ \A t \in Trees, c \in Predicates : find(t, c).res = "ok"

\* C19 witness: the caller's iterator has stepped from the first node of a
\* two-node tree to the second, while the other tree holds a node.
C19_Witness ==
    /\ last.op = "inc" /\ last.res = "ok"
    /\ last.a = begin(cursor.avlTreePtr)
    /\ cursor.node # NULL
    /\ Size(cursor.avlTreePtr) = 2
    /\ \E u \in Trees : u # cursor.avlTreePtr /\ head[u] # NULL

\* C20: the backward step is the mirror of the forward step: from a node
\* other than the first it moves the iterator to the predecessor of the
\* node; a forward step from a node followed by a backward step brings the
\* iterator back to that node; and a backward step from a node other than
\* the first followed by a forward step brings it back to that node.
C20_BackwardMirrorsForward ==
    [][/\ (last'.op = "dec" /\ last'.a.node # NULL
              /\ last'.a # begin(last'.t)) =>
              /\ last'.res = "ok"
              /\ cursor' = Iterator(previous[last'.a.node], last'.t)
       /\ (last.op = "inc" /\ last.res = "ok" /\ last'.op = "dec") =>
              /\ last'.res = "ok"
              /\ cursor' = last.a
       /\ (last.op = "dec" /\ last.a.node # NULL /\ last.a # begin(last.t)
              /\ last'.op = "inc") =>
              /\ last.res = "ok" /\ last'.res = "ok"
              /\ cursor' = last.a]_vars

====
